---------------------------- MODULE Spec2Model ----------------------------
(***************************************************************************)
(* The frame pipeline of helper.py: play_stored_video, play_rtsp_stream,   *)
(* play_webcam and play_youtube_video, with _display_detected_frames and   *)
(* display_tracker_options.  One pipeline run is the body of the           *)
(* "Detect Objects" button branch of a play_* function; the four loops are *)
(* the same code and differ in how the source is obtained and in the text  *)
(* of the error message.                                                   *)
(***************************************************************************)
EXTENDS Integers, Sequences, FiniteSets, TLC

(* ------------------------------ bounds --------------------------------- *)

\* longest finite source, in readable frames
MaxFrames == 3

\* reads of a live source (one that never reports a failed read) explored
LiveCap == 4

\* pipeline runs (button clicks) explored
MaxRuns == 2

\* model objects created by load_model
MaxModels == 2

(* --------------------------- program constants ------------------------- *)

\* helper.py:57  cv2.resize(image, (720, int(720 * (9 / 16))))
TargetWidth == 720
AspectNum == 9
AspectDen == 16

(* ------------------------------ inputs --------------------------------- *)

PlayFunctions ==
    {"play_stored_video", "play_rtsp_stream", "play_webcam", "play_youtube_video"}

\* confidence in percent (the caller passes a float in [0,1])
ConfValues == {25, 40}

\* resolutions of the frames a source hands out, <<width, height>>
Resolutions == {<<640, 480>>, <<1920, 1080>>, <<405, 720>>}

\* the two tracker configuration files offered by display_tracker_options
TrackerTypes == {"bytetrack.yaml", "botsort.yaml"}

\* Python's None for the tracker argument
None == "None"

\* what a read after the last readable frame reports: the source is
\* exhausted ("eos"), the transport failed ("readerror"), or the source is
\* live and never fails ("live")
Tails == {"eos", "readerror", "live"}

\* how the YouTube lookup ends: a stream is found, YouTube(url) raises, or
\* streams.filter(...).first() returns None
Resolutions_YT == {"ok", "bad_url", "no_stream"}

\* a stored file or a resolved remote video is finite
TailsOf(k) ==
    IF k \in {"play_stored_video", "play_youtube_video"}
    THEN {"eos", "readerror"}
    ELSE Tails

\* a source: whether VideoCapture opens it, how many frames it can read,
\* and what follows them
SourcesOf(k) ==
    {[opens |-> FALSE, n |-> 0, tail |-> "eos"]}
    \cup {[opens |-> TRUE, n |-> m, tail |-> t] :
              m \in 0..MaxFrames, t \in TailsOf(k) \ {"live"}}
    \cup {[opens |-> TRUE, n |-> 0, tail |-> t] : t \in TailsOf(k) \cap {"live"}}

NoFrame == [idx |-> 0, size |-> <<0, 0>>]

VARIABLES
    pc,            \* position of the script: idle, resolve, open, check, read, display, emit, done
    run,           \* number of pipeline runs started so far
    kind,          \* the play_* function of the current run
    conf,          \* conf argument of the current run
    is_display_tracker, \* first result of display_tracker_options
    tracker,       \* second result of display_tracker_options
    src,           \* the source the run was pointed at
    yt,            \* how the YouTube lookup of this run ends
    capCreated,    \* vid_cap has been constructed in this run
    opened,        \* vid_cap.isOpened()
    released,      \* calls of vid_cap.release() in this run
    reads,         \* calls of vid_cap.read() in this run
    readsAfterRelease, \* reads issued after a release in this run
    image,         \* the frame last read by the loop (NoFrame before the first)
    inferLog,      \* the calls made to the inference engine in this run
    faultLog,      \* <<frame index, cause>> of every exception raised in this run
    emitted,       \* frame indices shown on st_frame in this run, in order
    diag,          \* st.sidebar.error messages of this run
    stopRequested, \* the user has asked the run to stop
    readsSinceStop,\* reads issued after the stop request
    model,         \* identity of the model object passed to the play_* function
    trackers       \* tracker state kept on the model object: runs whose track ids it holds

vars == <<pc, run, kind, conf, is_display_tracker, tracker, src, yt, capCreated,
          opened, released, reads, readsAfterRelease, image, inferLog, faultLog,
          emitted, diag, stopRequested, readsSinceStop, model, trackers>>

cfgVars == <<run, kind, conf, is_display_tracker, tracker, src, yt>>


(* --------------------------- pure functions ---------------------------- *)

\* Python's true division a / b, kept as the exact fraction <<a, b>>.  The
\* values met here (9/16 and 720 * 9/16) are exact in binary floating point.
PyDiv(a, b) == <<a, b>>

\* n * q for an integer n and a fraction q
PyMul(n, q) == <<n * q[1], q[2]>>

\* int(q): truncation toward zero of a non-negative fraction
PyInt(q) == q[1] \div q[2]

\* helper.py:57  (720, int(720 * (9 / 16))): the dsize handed to cv2.resize,
\* <<width, height>>
TargetSize_Floordiv == <<TargetWidth, TargetWidth * (AspectNum \div AspectDen)>>
TargetSize == <<TargetWidth, PyInt(PyMul(TargetWidth, PyDiv(AspectNum, AspectDen)))>>

\* cv2.resize(image, dsize): the same frame with the size dsize
Resize(img, dsize) == [img EXCEPT !.size = dsize]

\* helper.py:33-38  display_tracker_options, as a function of the two radio
\* selections
display_tracker_options(display_tracker, tracker_type) ==
    IF display_tracker = "Yes"
    THEN <<TRUE, tracker_type>>
    ELSE <<FALSE, None>>

\* helper.py:60-63  the call made to the engine for one frame
InferenceRequest_DefaultConf(c, img, is_display_tracking, trk) ==
    IF is_display_tracking
    THEN [mode |-> "track", idx |-> img.idx, size |-> img.size, conf |-> c,
          persist |-> TRUE, tracker |-> trk]
    ELSE [mode |-> "predict", idx |-> img.idx, size |-> img.size, conf |-> 25,
          persist |-> FALSE, tracker |-> None]
InferenceRequest(c, img, is_display_tracking, trk) ==
    IF is_display_tracking
    THEN [mode |-> "track", idx |-> img.idx, size |-> img.size, conf |-> c,
          persist |-> TRUE, tracker |-> trk]
    ELSE [mode |-> "predict", idx |-> img.idx, size |-> img.size, conf |-> c,
          persist |-> FALSE, tracker |-> None]

\* the text in front of str(e) in the except clause of each play_* function
ErrorPrefix(k) ==
    IF k = "play_rtsp_stream"
    THEN "Error loading RTSP stream: "
    ELSE "Error loading video: "

\* except Exception as e: st.sidebar.error(prefix + str(e))
ErrorMessage(k, cause) == [msg |-> ErrorPrefix(k), cause |-> cause]

\* what vid_cap.read() returns as `success` on read number r of source s
ReadSucceeds(s, r) == s.tail = "live" \/ r <= s.n

(* ------------------------------- state --------------------------------- *)

\* no run is under way: the locals of the play_* functions do not exist
NoRun ==
    /\ pc = "idle"
    /\ kind = "play_stored_video"
    /\ conf = 40
    /\ is_display_tracker = FALSE
    /\ tracker = None
    /\ src = [opens |-> FALSE, n |-> 0, tail |-> "eos"]
    /\ yt = "ok"
    /\ capCreated = FALSE
    /\ opened = FALSE
    /\ released = 0
    /\ reads = 0
    /\ readsAfterRelease = 0
    /\ image = NoFrame
    /\ inferLog = <<>>
    /\ faultLog = <<>>
    /\ emitted = <<>>
    /\ diag = <<>>
    /\ stopRequested = FALSE
    /\ readsSinceStop = 0

Init ==
    /\ NoRun
    /\ run = 0
    /\ model = 1
    /\ trackers = {}

\* helper.py:10-21  load_model: a new model object, with no tracker state
LoadModel ==
    /\ pc = "idle"
    /\ model < MaxModels
    /\ model' = model + 1
    /\ trackers' = {}
    /\ UNCHANGED <<pc, cfgVars, capCreated, opened, released, reads,
                   readsAfterRelease, image, inferLog, faultLog, emitted, diag,
                   stopRequested, readsSinceStop>>

\* The widgets are read and the button of a play_* function is pressed:
\* the configuration of the run is fixed and the try block is entered.
Click ==
    /\ pc = "idle"
    /\ run < MaxRuns
    /\ \E k \in PlayFunctions, c \in ConfValues,
          display_tracker \in {"Yes", "No"}, tracker_type \in TrackerTypes :
          LET opt == display_tracker_options(display_tracker, tracker_type) IN
          /\ kind' = k
          /\ conf' = c
          /\ is_display_tracker' = opt[1]
          /\ tracker' = opt[2]
          /\ src' \in SourcesOf(k)
          /\ yt' \in (IF k = "play_youtube_video" THEN Resolutions_YT ELSE {"ok"})
          /\ pc' = IF k = "play_youtube_video" THEN "resolve" ELSE "open"
    /\ run' = run + 1
    /\ UNCHANGED <<capCreated, opened, released, reads, readsAfterRelease,
                   image, inferLog, faultLog, emitted, diag, stopRequested,
                   readsSinceStop, model, trackers>>

\* The play_* function returns and the script ends: of the run only the
\* model object, with what it holds, is left.
Return ==
    /\ pc = "done"
    /\ pc' = "idle"
    /\ kind' = "play_stored_video"
    /\ conf' = 40
    /\ is_display_tracker' = FALSE
    /\ tracker' = None
    /\ src' = [opens |-> FALSE, n |-> 0, tail |-> "eos"]
    /\ yt' = "ok"
    /\ capCreated' = FALSE
    /\ opened' = FALSE
    /\ released' = 0
    /\ reads' = 0
    /\ readsAfterRelease' = 0
    /\ image' = NoFrame
    /\ inferLog' = <<>>
    /\ faultLog' = <<>>
    /\ emitted' = <<>>
    /\ diag' = <<>>
    /\ stopRequested' = FALSE
    /\ readsSinceStop' = 0
    /\ UNCHANGED <<run, model, trackers>>

\* The user asks the running pipeline to stop.  No statement of helper.py
\* reads the request.
RequestStop ==
    /\ pc \notin {"idle", "done"}
    /\ ~stopRequested
    /\ stopRequested' = TRUE
    /\ UNCHANGED <<pc, cfgVars, capCreated, opened, released, reads,
                   readsAfterRelease, image, inferLog, faultLog, emitted, diag,
                   readsSinceStop, model, trackers>>

\* helper.py:89-90  YouTube(source_youtube) and streams.filter(...).first()
\* give a stream
ResolveOk ==
    /\ pc = "resolve"
    /\ yt = "ok"
    /\ pc' = "open"
    /\ UNCHANGED <<cfgVars, capCreated, opened, released, reads,
                   readsAfterRelease, image, inferLog, faultLog, emitted, diag,
                   stopRequested, readsSinceStop, model, trackers>>

\* helper.py:89-91,101-102  YouTube(...) raises, or first() returns None and
\* stream.url raises: the except clause reports it and the run is over
ResolveRaise_OpensAnyway ==
    /\ pc = "resolve"
    /\ yt # "ok"
    /\ pc' = "open"
    /\ UNCHANGED <<cfgVars, capCreated, opened, released, reads,
                   readsAfterRelease, image, inferLog, faultLog, emitted, diag,
                   stopRequested, readsSinceStop, model, trackers>>
ResolveRaise ==
    /\ pc = "resolve"
    /\ yt # "ok"
    /\ faultLog' = Append(faultLog, <<0, yt>>)
    /\ diag' = Append(diag, ErrorMessage(kind, yt))
    /\ pc' = "done"
    /\ UNCHANGED <<cfgVars, capCreated, opened, released, reads,
                   readsAfterRelease, image, inferLog, emitted,
                   stopRequested, readsSinceStop, model, trackers>>

\* helper.py:181-182  vid_cap = cv2.VideoCapture(...); st_frame = st.empty()
Open ==
    /\ pc = "open"
    /\ capCreated' = TRUE
    /\ opened' = src.opens
    /\ pc' = "check"
    /\ UNCHANGED <<cfgVars, released, reads, readsAfterRelease, image,
                   inferLog, faultLog, emitted, diag, stopRequested,
                   readsSinceStop, model, trackers>>

\* helper.py:184  while vid_cap.isOpened():
Check ==
    /\ pc = "check"
    /\ pc' = IF opened THEN "read" ELSE "done"
    /\ UNCHANGED <<cfgVars, capCreated, opened, released, reads,
                   readsAfterRelease, image, inferLog, faultLog, emitted, diag,
                   stopRequested, readsSinceStop, model, trackers>>

\* bookkeeping of one call of vid_cap.read()
CountRead ==
    /\ reads' = reads + 1
    /\ readsAfterRelease' = readsAfterRelease + (IF released > 0 THEN 1 ELSE 0)
    /\ readsSinceStop' = readsSinceStop + (IF stopRequested THEN 1 ELSE 0)

\* helper.py:185-186  success, image = vid_cap.read() with success true
ReadFrame ==
    /\ pc = "read"
    /\ ReadSucceeds(src, reads + 1)
    /\ src.tail = "live" => reads < LiveCap
    /\ CountRead
    /\ \E size \in Resolutions : image' = [idx |-> reads + 1, size |-> size]
    /\ pc' = "display"
    /\ UNCHANGED <<cfgVars, capCreated, opened, released, inferLog, faultLog,
                   emitted, diag, stopRequested, model, trackers>>

\* helper.py:185,188-190  the read fails: vid_cap.release(); break
ReadFail_NoRelease ==
    /\ pc = "read"
    /\ ~ReadSucceeds(src, reads + 1)
    /\ reads < MaxFrames + 3
    /\ CountRead
    /\ pc' = "check"
    /\ UNCHANGED <<cfgVars, capCreated, opened, released, image, inferLog,
                   faultLog, emitted, diag, stopRequested, model, trackers>>
ReadFail ==
    /\ pc = "read"
    /\ ~ReadSucceeds(src, reads + 1)
    /\ CountRead
    /\ released' = released + 1
    /\ opened' = FALSE
    /\ pc' = "done"
    /\ UNCHANGED <<cfgVars, capCreated, image, inferLog, faultLog, emitted,
                   diag, stopRequested, model, trackers>>

\* helper.py:57-66  _display_detected_frames up to res[0].plot(): the frame
\* is resized (the loop's own `image` still names the frame as read) and
\* handed to model.track or model.predict, which returns.
\* model.track(persist=True) keeps the tracker state found on the model
\* object and may add track ids to it.
Display ==
    /\ pc = "display"
    /\ LET resized == Resize(image, TargetSize)
           req == InferenceRequest(conf, resized, is_display_tracker, tracker)
       IN /\ inferLog' = Append(inferLog, req)
          /\ IF req.mode = "track"
             THEN \E newTrack \in BOOLEAN :
                     trackers' = IF newTrack THEN trackers \cup {run} ELSE trackers
             ELSE trackers' = trackers
    /\ pc' = "emit"
    /\ UNCHANGED <<cfgVars, capCreated, opened, released, reads,
                   readsAfterRelease, image, faultLog, emitted, diag,
                   stopRequested, readsSinceStop, model>>

\* helper.py:57-66,191-192  the engine raises on this frame: the exception
\* leaves the while loop and the except clause of the play_* function
\* reports it
DisplayRaise_Continue ==
    /\ pc = "display"
    /\ LET resized == Resize(image, TargetSize)
           req == InferenceRequest(conf, resized, is_display_tracker, tracker)
       IN inferLog' = Append(inferLog, req)
    /\ faultLog' = Append(faultLog, <<image.idx, "inference">>)
    /\ diag' = Append(diag, ErrorMessage(kind, "inference"))
    /\ pc' = "check"
    /\ UNCHANGED <<cfgVars, capCreated, opened, released, reads,
                   readsAfterRelease, image, emitted, stopRequested, readsSinceStop,
                   model, trackers>>
DisplayRaise ==
    /\ pc = "display"
    /\ LET resized == Resize(image, TargetSize)
           req == InferenceRequest(conf, resized, is_display_tracker, tracker)
       IN inferLog' = Append(inferLog, req)
    /\ faultLog' = Append(faultLog, <<image.idx, "inference">>)
    /\ diag' = Append(diag, ErrorMessage(kind, "inference"))
    /\ pc' = "done"
    /\ UNCHANGED <<cfgVars, capCreated, opened, released, reads,
                   readsAfterRelease, image, emitted, stopRequested, readsSinceStop,
                   model, trackers>>

\* helper.py:69  st_frame.image(detected_image, ...) returns; the loop goes
\* back to its condition
Emit_Twice ==
    /\ pc = "emit"
    /\ emitted' = emitted \o <<image.idx, image.idx>>
    /\ pc' = "check"
    /\ UNCHANGED <<cfgVars, capCreated, opened, released, reads,
                   readsAfterRelease, image, inferLog, faultLog, diag, stopRequested,
                   readsSinceStop, model, trackers>>
Emit ==
    /\ pc = "emit"
    /\ emitted' = Append(emitted, image.idx)
    /\ pc' = "check"
    /\ UNCHANGED <<cfgVars, capCreated, opened, released, reads,
                   readsAfterRelease, image, inferLog, faultLog, diag, stopRequested,
                   readsSinceStop, model, trackers>>

\* helper.py:69,191-192  st_frame.image raises: as for the engine
EmitRaise ==
    /\ pc = "emit"
    /\ faultLog' = Append(faultLog, <<image.idx, "sink">>)
    /\ diag' = Append(diag, ErrorMessage(kind, "sink"))
    /\ pc' = "done"
    /\ UNCHANGED <<cfgVars, capCreated, opened, released, reads,
                   readsAfterRelease, image, inferLog, emitted, stopRequested,
                   readsSinceStop, model, trackers>>

\* the statements of one run, from the try to the end of the function
Step ==
    \/ ResolveOk
    \/ ResolveRaise
    \/ Open
    \/ Check
    \/ ReadFrame
    \/ ReadFail
    \/ Display
    \/ DisplayRaise
    \/ Emit
    \/ EmitRaise

Next ==
    \/ LoadModel
    \/ Click
    \/ RequestStop
    \/ Step
    \/ Return

Spec == Init /\ [][Next]_vars

\* A statement of the running script that can execute does: every call of
\* the loop is a blocking call that returns or raises.
FairSpec == Spec /\ WF_vars(Step)

(* ------------------------------- claims -------------------------------- *)

\* a run has ended and its outcome is still in the state
RunEnded == pc = "done"

\* the indices 1..n in order
UpTo(n) == [i \in 1..n |-> i]

\* C1: in every run, however it ends (the source does not open, a read
\* fails, the source is exhausted, the inference or emit call raises), the
\* capture created by the run has been released exactly once when the run
\* has ended, and never more than once before.
C1_ReleasedExactlyOnce ==
    /\ released <= 1
    /\ (RunEnded /\ capCreated) => released = 1

\* C2 as stated: when the engine fails on frame k and later frames are
\* readable, frame k is not emitted, a diagnostic is surfaced and the loop
\* goes on: at the end of the run every frame after k has been read, sent
\* to the engine and emitted, and the run has ended at the end of the stream.
C2_ContinuesAfterFault ==
    \A f \in 1..Len(faultLog) :
        LET k == faultLog[f][1] IN
        (faultLog[f][2] = "inference" /\ src.tail # "live" /\ k < src.n) =>
            /\ \A e \in 1..Len(emitted) : emitted[e] # k
            /\ diag # <<>>
            /\ RunEnded =>
                  /\ reads = src.n + 1
                  /\ \A j \in (k + 1)..src.n :
                        /\ \E i \in 1..Len(inferLog) : inferLog[i].idx = j
                        /\ \E e \in 1..Len(emitted) : emitted[e] = j

\* C2 amended: when the engine fails on frame k, frame k is not emitted, one
\* diagnostic carrying the cause is surfaced, and the run ends there: frames
\* 1..k-1 are the only ones emitted, frame k is the last one read and the
\* last one sent to the engine, whether or not later frames are readable.
C2_AbortsOnFault ==
    \A f \in 1..Len(faultLog) :
        LET k == faultLog[f][1] IN
        faultLog[f][2] = "inference" =>
            /\ RunEnded
            /\ Len(faultLog) = 1
            /\ emitted = UpTo(k - 1)
            /\ diag = <<ErrorMessage(kind, "inference")>>
            /\ reads = k
            /\ Len(inferLog) = k
            /\ inferLog[k].idx = k

\* C2 witness: the engine failed on frame 2 of a three-frame source
C2_Witness ==
    /\ RunEnded
    /\ faultLog = <<<<2, "inference">>>>
    /\ src.n = 3
    /\ emitted = <<1>>
    /\ reads = 2

\* C3: when the source cannot be opened the run ends with a diagnostic
\* surfaced to the user, and no frame is read, sent to the engine or emitted.
C3_OpenFailureSurfaced ==
    (RunEnded /\ capCreated /\ ~src.opens) =>
        /\ diag # <<>>
        /\ reads = 0
        /\ inferLog = <<>>
        /\ emitted = <<>>

\* the runs C4 is about: play_stored_video on a file that opens and ends
\* with end of stream after src.n frames
C4_StoredVideo ==
    /\ pc \notin {"idle"}
    /\ kind = "play_stored_video"
    /\ src.opens
    /\ src.tail = "eos"

C4_Safety ==
    C4_StoredVideo =>
        /\ reads <= src.n + 1
        /\ readsAfterRelease = 0
        /\ released > 0 => (RunEnded /\ reads = src.n + 1)
        /\ (RunEnded /\ faultLog = <<>>) =>
              /\ reads = src.n + 1
              /\ released = 1
              /\ ~opened
              /\ diag = <<>>

\* C4: a run of play_stored_video on a finite source of N frames ends; with
\* no fault it has then made exactly N+1 reads, the handle was released on
\* the iteration of the failed read, no error was surfaced and no read
\* followed the release.
C4_GracefulExhaustion ==
    /\ []C4_Safety
    /\ (C4_StoredVideo ~> RunEnded)

\* C4 witness: a three-frame file played to its end
C4_Witness ==
    /\ C4_StoredVideo
    /\ RunEnded
    /\ src.n = 3
    /\ faultLog = <<>>
    /\ reads = 4
    /\ released = 1
    /\ emitted = <<1, 2, 3>>

\* C5: frames are emitted in read order, each read frame goes to exactly one
\* engine call and one emission, a frame is emitted before the next is read,
\* and a source of N frames run without fault has emitted exactly N frames
\* when the run ends.
C5_OneEmissionPerFrame ==
    /\ \A i \in 1..Len(emitted) : emitted[i] = i
    /\ \A i \in 1..Len(inferLog) : inferLog[i].idx = i
    /\ Len(emitted) <= Len(inferLog)
    /\ Len(inferLog) <= reads
    /\ (pc = "read" /\ faultLog = <<>>) =>
          (Len(emitted) = reads /\ Len(inferLog) = reads)
    /\ (pc = "display") => (Len(inferLog) = reads - 1 /\ Len(emitted) = reads - 1)
    /\ (pc = "emit") => (Len(inferLog) = reads /\ Len(emitted) = reads - 1)
    /\ (RunEnded /\ faultLog = <<>> /\ src.tail # "live") =>
          (emitted = UpTo(src.n) /\ Len(inferLog) = src.n)

\* C5 witness: a three-frame network stream played to its end
C5_Witness ==
    /\ RunEnded
    /\ kind = "play_rtsp_stream"
    /\ src.n = 3
    /\ faultLog = <<>>
    /\ emitted = <<1, 2, 3>>
    /\ Len(inferLog) = 3

\* C6: when a run with tracking enabled sends its first frame to the engine,
\* the tracker state on the model object holds no track id of an earlier run.
C6_FreshTrackingState ==
    (pc = "display" /\ is_display_tracker /\ inferLog = <<>>) =>
        \A t \in trackers : t >= run

\* C7: after a stop request the run makes at most one further read.
C7_StopBoundsReads == stopRequested => readsSinceStop <= 1

\* C8: when a read fails mid-stream on a transport failure the handle is
\* closed, an error is surfaced to the user and no further read is issued.
C8_ReadErrorSurfaced ==
    (RunEnded /\ src.opens /\ src.tail = "readerror" /\ reads = src.n + 1) =>
        /\ released = 1
        /\ readsAfterRelease = 0
        /\ diag # <<>>

\* Python's round(q) of a non-negative fraction: to nearest, ties to even
PyRound(q) ==
    LET fl == q[1] \div q[2]
        twice == 2 * (q[1] % q[2])
    IN  IF twice < q[2] THEN fl
        ELSE IF twice > q[2] THEN fl + 1
        ELSE IF fl % 2 = 0 THEN fl ELSE fl + 1

\* C9: every frame handed to the engine is 720 wide and round(720 * 9/16) =
\* 405 high, whatever the size of the frame read.
C9_UniformFraming ==
    \A i \in 1..Len(inferLog) :
        /\ inferLog[i].size = <<720, PyRound(<<720 * 9, 16>>)>>
        /\ inferLog[i].size = <<720, 405>>

\* C9 witness: a 1920x1080 frame and a portrait 405x720 frame have both just
\* been handed to the engine
C9_Witness ==
    /\ pc = "emit"
    /\ Len(inferLog) >= 1
    /\ image.size \in {<<1920, 1080>>, <<405, 720>>}
    /\ image.size # inferLog[Len(inferLog)].size
    /\ inferLog[Len(inferLog)].idx = image.idx

\* C10: every engine call of a run is a track call with the chosen tracker
\* and persist when tracking is enabled and a predict call otherwise, with
\* the configured confidence; the tracker is one of the two supported ones
\* exactly when tracking is enabled and None otherwise.
C10_FixedConfiguration ==
    /\ \A i \in 1..Len(inferLog) :
          /\ inferLog[i].conf = conf
          /\ inferLog[i].mode = (IF is_display_tracker THEN "track" ELSE "predict")
          /\ inferLog[i].tracker = tracker
          /\ inferLog[i].persist = is_display_tracker
    /\ is_display_tracker <=> tracker \in TrackerTypes
    /\ ~is_display_tracker <=> tracker = None

\* C10 witness: three frames of one run, tracked with botsort at confidence
\* 0.40
C10_Witness ==
    /\ Len(inferLog) = 3
    /\ is_display_tracker
    /\ tracker = "botsort.yaml"
    /\ conf = 40
    /\ inferLog[3].mode = "track"

\* C11: in play_youtube_video no capture exists while the lookup of the
\* stream is pending, a capture is only ever created after a lookup that
\* gave a stream, and a lookup that fails (YouTube(url) raises, or no
\* mp4/720 stream is found) ends the run with one diagnostic carrying the
\* cause, no capture created and no frame read, sent to the engine or
\* emitted.
C11_ResolutionBeforeOpen ==
    (kind = "play_youtube_video" /\ pc # "idle") =>
        /\ pc = "resolve" =>
              (~capCreated /\ reads = 0 /\ diag = <<>> /\ faultLog = <<>>)
        /\ capCreated => yt = "ok"
        /\ (yt # "ok" /\ pc # "resolve") =>
              /\ RunEnded
              /\ diag = <<ErrorMessage(kind, yt)>>
              /\ faultLog = <<<<0, yt>>>>
              /\ ~capCreated
              /\ ~opened
              /\ released = 0
              /\ reads = 0
              /\ inferLog = <<>>
              /\ emitted = <<>>

\* C11 witness: the lookup found no mp4/720 stream and the run has ended
C11_Witness ==
    /\ kind = "play_youtube_video"
    /\ RunEnded
    /\ yt = "no_stream"
    /\ diag = <<ErrorMessage("play_youtube_video", "no_stream")>>
    /\ ~capCreated
    /\ reads = 0

=============================================================================
